---- MODULE Spec2Model ----
(***************************************************************************)
(* senio: assembling Sentinel-2 L2A band files into GeoTIFF band stacks.   *)
(*                                                                         *)
(*   utils.py       check_path_validity, stack_sort, create_pam_xml        *)
(*   processors.py  processor_all, processor_rgbn                          *)
(*                                                                         *)
(* Python strings that the code slices or searches (file names, band       *)
(* codes) are sequences of one-character strings; Python's 0-based         *)
(* indices are kept in the counters and shifted by one on access.          *)
(***************************************************************************)
EXTENDS Integers, Sequences, FiniteSets, TLC

VARIABLES
    call,     \* the activation record of a stand-alone stack_sort call
    product,  \* what the Sentinel-2 product holds: band files, pixels, georeferencing
    disk,     \* the files and folders the processors create and delete
    proc,     \* the activation record of the processor_all / processor_rgbn run
    runs      \* number of processor runs started

vars == <<call, product, disk, proc, runs>>

(***************************************************************************)
(* Bounds of the model.                                                    *)
(***************************************************************************)
\* longest code_list / sorted_list handed to a stand-alone stack_sort call
MaxLen == 3
\* number of processor runs, with any arguments, made one after the other
\* on the same disk
MaxRuns == 1
\* rows (and columns) of a 60m band of the model's tiles
GridRows == 1
\* number of successful runs made one after the other on the same product
MaxSeq == 3

(***************************************************************************)
(* Generic helpers.                                                        *)
(***************************************************************************)
\* seq[i] of Python: 0-based
At(seq, i) == seq[i + 1]

\* seq[a:b] of Python, 0 <= a <= b
Slice(seq, a, b) == SubSeq(seq, a + 1, IF b <= Len(seq) THEN b ELSE Len(seq))

\* all sequences over S of length at most n
SeqsUpTo(S, n) == UNION {[1..k -> S] : k \in 0..n}

\* a value stored into a numpy array of dtype uint16 / uint8
U16(v) == v % 65536
U8(v) == v % 256

\* A band (a 2-D array): the value of its pixels, its number of rows and
\* columns in units of the 60m grid, and the factor it was resampled by.
Band(pix, rows) == [pix |-> pix, rows |-> rows, scale |-> 1]

(***************************************************************************)
(* Band codes.                                                             *)
(***************************************************************************)
C01 == <<"0", "1">>
C02 == <<"0", "2">>
C03 == <<"0", "3">>
C04 == <<"0", "4">>
C05 == <<"0", "5">>
C06 == <<"0", "6">>
C07 == <<"0", "7">>
C08 == <<"0", "8">>
C8A == <<"8", "A">>
C09 == <<"0", "9">>
C10 == <<"1", "0">>
C11 == <<"1", "1">>
C12 == <<"1", "2">>

sorted_list_10m == <<C02, C03, C04, C08>>
sorted_list_20m == <<C05, C06, C07, C11, C12, C8A>>
sorted_list_60m_reversed == <<C09, C01>>

sorted_list_60m == <<C01, C09>>

(***************************************************************************)
(* utils.stack_sort                                                        *)
(***************************************************************************)
\* np.asarray of a list of equally shaped 2-D bands (processors.py lines 126,
\* 133, 140, 371): a 3-D array, but an array of shape (0,) for the empty list.
np_asarray(list) == [ndim |-> IF Len(list) = 0 THEN 1 ELSE 3, band |-> list]

\* The frame after lines 84-91.  Line 84 unpacks stack_array.shape into three
\* names and raises ValueError for an array that is not 3-D.
stack_sort_enter(stack_array, code_list, sorted_list) ==
    [stack_array  |-> stack_array,
     code_list    |-> code_list,
     sorted_list  |-> sorted_list,
     stack_sorted |-> [i \in 1..Len(stack_array.band) |->
                          Band(0, stack_array.band[1].rows)],
     c_arr        |-> [i \in 1..Len(code_list) |-> 0],
     count        |-> 0,
     count_sort   |-> 0,
     pc           |-> IF stack_array.ndim # 3 THEN "ValueError" ELSE "while"]

\* lines 95-97: the scanned code is the wanted one
ScanHitNoReset(f) ==
    [f EXCEPT !.c_arr[f.count_sort + 1] = U8(f.count),
              !.count_sort = @ + 1]

ScanHit(f) ==
    [f EXCEPT !.c_arr[f.count_sort + 1] = U8(f.count),
              !.count_sort = @ + 1,
              !.count = 0]

\* lines 98-99: it is not
ScanMissWrap(f) == [f EXCEPT !.count = (@ + 1) % Len(f.code_list)]

ScanMiss(f) == [f EXCEPT !.count = @ + 1]

\* one evaluation of the loop condition of line 93 and, when it holds, one
\* pass through the body (lines 94-99)
stack_sort_while(f) ==
    IF f.count_sort = Len(f.code_list)
    THEN [f EXCEPT !.pc = "for"]
    ELSE IF f.count >= Len(f.code_list) \/ f.count_sort >= Len(f.sorted_list)
    THEN [f EXCEPT !.pc = "IndexError"]
    ELSE IF At(f.code_list, f.count) = At(f.sorted_list, f.count_sort)
    THEN ScanHit(f)
    ELSE ScanMiss(f)

\* the element stored by line 104 into the uint16 array of line 85
StoreBandU8(b) == [b EXCEPT !.pix = U8(@)]

StoreBand(b) == [b EXCEPT !.pix = U16(@)]

\* the slot of stack_array that line 104 copies into slot sorted_band
CopySourceSame(f, sorted_band) == sorted_band

CopySource(f, sorted_band) == f.c_arr[sorted_band + 1]

\* lines 103-106
stack_sort_for(f) ==
    IF \E i \in 1..Len(f.code_list) :
           i > Len(f.stack_array.band) \/ CopySource(f, i - 1) >= Len(f.stack_array.band)
    THEN [f EXCEPT !.pc = "IndexError"]
    ELSE [f EXCEPT !.pc = "return",
                   !.stack_sorted =
                       [i \in 1..Len(f.stack_array.band) |->
                           IF i <= Len(f.code_list)
                           THEN StoreBand(At(f.stack_array.band, CopySource(f, i - 1)))
                           ELSE f.stack_sorted[i]]]

SortTerminal == {"return", "IndexError", "ValueError"}

\* the whole call
RECURSIVE stack_sort_run(_)
stack_sort_run(f) ==
    IF f.pc = "while" THEN stack_sort_run(stack_sort_while(f))
    ELSE IF f.pc = "for" THEN stack_sort_for(f)
    ELSE f

(***************************************************************************)
(* File names of the product.  A band file of an L2A granule is named      *)
(* T<tile>_<sensing time>_B<code>_<resolution>m.jp2: 23 characters, then   *)
(* "B" at index 23 and the band code at indices 24 and 25.                 *)
(***************************************************************************)
NamePrefix ==
    <<"T", "3", "4", "S", "G", "H", "_",
      "2", "0", "2", "3", "0", "8", "0", "1", "T", "0", "9", "0", "6", "0", "1", "_">>

R10 == <<"1", "0">>
R20 == <<"2", "0">>
R60 == <<"6", "0">>

Jp2 == <<".", "j", "p", "2">>
AuxXml == <<".", "j", "p", "2", ".", "a", "u", "x", ".", "x", "m", "l">>

\* the text "B<code>_<res>m" the selection looks for
BandTag(code, res) == <<"B">> \o code \o <<"_">> \o res \o <<"m">>

BandFile(code, res) == NamePrefix \o BandTag(code, res) \o Jp2

\* the true-colour image every tier directory holds beside its bands
TciFile(res) == NamePrefix \o <<"T", "C", "I", "_">> \o res \o <<"m">> \o Jp2

\* the statistics sidecar a GIS viewer leaves beside a band it has opened
SidecarFile(code, res) == NamePrefix \o BandTag(code, res) \o AuxXml

\* pattern in name (Python's substring test)
Contains(name, pattern) ==
    \E i \in 1..(Len(name) - Len(pattern) + 1) :
        SubSeq(name, i, i + Len(pattern) - 1) = pattern

\* pathlib's file.suffix: the text from the last dot on
Suffix(name) ==
    LET dots == {i \in 1..Len(name) : name[i] = "."}
    IN  IF dots = {} THEN <<>>
        ELSE SubSeq(name, CHOOSE i \in dots : \A j \in dots : j <= i, Len(name))

\* lines 83, 101, 116, 361: band_names[band][24:26]
CodeOf(name) == Slice(name, 24, 26)

\* the conditions of lines 75-80 (and 353-358), 91-98, 109-113
SelectCodes10m == {C02, C03, C04, C08}
SelectCodes20m == {C05, C06, C07, C8A, C11, C12}
SelectCodes60m == {C01, C09, C10}

Selected(name, codes, res) == \E c \in codes : Contains(name, BandTag(c, res))

(***************************************************************************)
(* The product: its three tier directories, the pixels of every band file  *)
(* and the geotransform of each tier.                                      *)
(***************************************************************************)
\* every file a tier directory may hold, in the order of their names
TierFiles10m ==
    <<BandFile(C02, R10), SidecarFile(C02, R10), BandFile(C03, R10),
      BandFile(C04, R10), BandFile(C08, R10), TciFile(R10)>>
TierFiles20m ==
    <<BandFile(C02, R20), BandFile(C05, R20), BandFile(C06, R20),
      BandFile(C07, R20), BandFile(C11, R20), BandFile(C12, R20),
      BandFile(C8A, R20)>>
TierFiles60m ==
    <<BandFile(C01, R60), BandFile(C02, R60), BandFile(C09, R60),
      BandFile(C10, R60)>>

Range(seq) == {seq[i] : i \in 1..Len(seq)}

AllFiles == Range(TierFiles10m) \cup Range(TierFiles20m) \cup Range(TierFiles60m)

\* the twelve band files of an L2A granule that processor_all stacks
Bands10m == {BandFile(c, R10) : c \in SelectCodes10m}
Bands20m == {BandFile(c, R20) : c \in SelectCodes20m}
Bands60m == {BandFile(C01, R60), BandFile(C09, R60)}

\* rows and columns of a band of each tier, in units of the 60m grid
\* (10980, 5490 and 1830 pixels in a real tile)
Rows10m == 6 * GridRows
Rows20m == 3 * GridRows
Rows60m == GridRows

\* pixel scenes: every file its own value, rising or falling with the band
\* number
IndexIn(seq, x) == CHOOSE i \in 1..Len(seq) : seq[i] = x
SceneDistinct ==
    [n \in AllFiles |->
        IF n \in Range(TierFiles10m) THEN 100 + IndexIn(TierFiles10m, n)
        ELSE IF n \in Range(TierFiles20m) THEN 200 + IndexIn(TierFiles20m, n)
        ELSE 600 + IndexIn(TierFiles60m, n)]
SceneReversed == [n \in AllFiles |-> 1000 - SceneDistinct[n]]

\* geotransform of a raster: where its first pixel lies and the pixel size
Geo(origin, pixel) == [origin |-> origin, pixel |-> pixel]

GeoAligned == [r10 |-> Geo(0, 10), r20 |-> Geo(0, 20), r60 |-> Geo(0, 60)]
GeoShifted == [r10 |-> Geo(0, 10), r20 |-> Geo(0, 20), r60 |-> Geo(60, 60)]

Product(d10, d20, d60, pix, geo) ==
    [R10m |-> d10, R20m |-> d20, R60m |-> d60, pix |-> pix, geo |-> geo]

\* a granule as delivered and opened once in a GIS viewer: with its
\* true-colour images, lower-resolution copies of band 02 and a statistics
\* sidecar beside a band
Extras10m == {TciFile(R10), SidecarFile(C02, R10)}
Extras20m == {BandFile(C02, R20)}
Extras60m == {BandFile(C02, R60)}

StandardProduct ==
    Product(Bands10m \cup Extras10m, Bands20m \cup Extras20m,
            Bands60m \cup Extras60m, SceneDistinct, GeoAligned)

\* the products of the model: the standard one and products that differ from
\* it in one respect (other pixels, 60m tier georeferenced apart, a band 10
\* file in the 60m tier, band 09 missing)
Products ==
    {StandardProduct,
     [StandardProduct EXCEPT !.pix = SceneReversed],
     [StandardProduct EXCEPT !.geo = GeoShifted],
     [StandardProduct EXCEPT !.R60m = @ \cup {BandFile(C10, R60)}],
     [StandardProduct EXCEPT !.R60m = @ \ {BandFile(C09, R60)}]}

\* the product holding the twelve band files only, for the runs that try
\* every order of listing them
BareProducts ==
    {Product(Bands10m, Bands20m, Bands60m, SceneDistinct, GeoAligned)}

(***************************************************************************)
(* The disk.  A folder is a set of files; a raster file holds the bands    *)
(* written into it and its geotransform, a statistics sidecar the bands    *)
(* the statistics were computed from.                                      *)
(***************************************************************************)
Folder(exists, files) == [exists |-> exists, files |-> files]

File(name, bands, transform) ==
    [name |-> name, bands |-> bands, transform |-> transform]

\* writing a file replaces the file of that name
Put(files, file) == {e \in files : e.name # file.name} \cup {file}

Named(files, name) == CHOOSE e \in files : e.name = name

\* product_path as the caller gives it: the product folder, the zipped
\* product, or a file that is neither
ProductPaths == {".SAFE", ".zip", ".tif"}

PathExists(product_path, d) ==
    CASE product_path = ".SAFE" -> d.safe
      [] product_path = ".zip" -> d.zip
      [] OTHER -> TRUE

(***************************************************************************)
(* utils.check_path_validity                                               *)
(***************************************************************************)
ValidSuffixesAny == ProductPaths

ValidSuffixes == {".zip", ".SAFE"}

\* lines 48-64: the error raised ("none": the path is accepted) and the
\* disk afterwards (a zipped product is extracted beside the zip file)
check_path_validity(product_path, d) ==
    IF ~PathExists(product_path, d)
    THEN [error |-> "SystemExit", disk |-> d, extracted |-> FALSE]
    ELSE IF product_path \notin ValidSuffixes
    THEN [error |-> "SystemExit", disk |-> d, extracted |-> FALSE]
    ELSE IF product_path = ".zip"
    THEN [error |-> "none", disk |-> [d EXCEPT !.safe = TRUE], extracted |-> TRUE]
    ELSE [error |-> "none", disk |-> d, extracted |-> FALSE]

(***************************************************************************)
(* The frame of a processor run.                                           *)
(***************************************************************************)
NoGeo == Geo(0, 0)
UnboundKwargs == [bound |-> FALSE, transform |-> NoGeo]
UnboundStack == [bound |-> FALSE, band |-> <<>>]

\* log: what the run has done to the disk and the product so far;
\* written: the files the run has written into its output folder;
\* entry_disk: the disk when the run was started
IdleFrame(d) ==
    [pc |-> "idle", func |-> "none", error |-> "none",
     product_path |-> ".SAFE", output_path |-> "None", resample |-> "nearest",
     xml |-> TRUE, pyramids |-> TRUE,
     band_names_10m |-> <<>>, band_names_20m |-> <<>>, band_names_60m |-> <<>>,
     code_10m_list |-> <<>>, code_20m_list |-> <<>>, code_60m_list |-> <<>>,
     stack_10m_list |-> <<>>, stack_20m_list |-> <<>>, stack_60m_list |-> <<>>,
     src_10m_kwargs |-> UnboundKwargs, src_20m_kwargs |-> UnboundKwargs,
     src_60m_kwargs |-> UnboundKwargs,
     stack_10m_sorted |-> <<>>, stack_20m_sorted |-> <<>>, stack_60m_sorted |-> <<>>,
     data_20m |-> <<>>, data_60m |-> <<>>,
     transform_20m |-> NoGeo, transform_60m |-> NoGeo,
     stack |-> UnboundStack,
     log |-> {}, written |-> {}, entry_disk |-> d]

Raise(f, error) == [f EXCEPT !.pc = "aborted", !.error = error]

Goto(f, pc) == [f EXCEPT !.pc = pc]

Logged(f, events) == [f EXCEPT !.log = @ \cup events]

Wrote(f, file) == [f EXCEPT !.written = Put(@, file)]

\* the arguments of a call
Args(func, product_path, output_path, resample, xml, pyramids) ==
    [func |-> func, product_path |-> product_path, output_path |-> output_path,
     resample |-> resample, xml |-> xml, pyramids |-> pyramids]

ResampleOptions == {"nearest", "bilinear", "cubic", "lanczos"}

AllArgs ==
    {Args("all", p, o, r, x, y) :
        p \in ProductPaths, o \in {"None", "out"}, r \in ResampleOptions,
        x \in BOOLEAN, y \in BOOLEAN}
    \cup
    {Args("rgbn", p, o, "nearest", x, y) :
        p \in ProductPaths, o \in {"None", "out"}, x \in BOOLEAN, y \in BOOLEAN}

\* processor_all(product_path) with every option left at its default
DefaultArgs == {Args("all", ".SAFE", "None", "nearest", TRUE, TRUE)}

(***************************************************************************)
(* Orders in which iterdir may list a directory.                           *)
(***************************************************************************)
AllFilesSeq == TierFiles10m \o TierFiles20m \o TierFiles60m

InSet(S) == [n \in AllFiles |-> n \in S]

Ascending(S) == LET in == InSet(S) IN SelectSeq(AllFilesSeq, LAMBDA n : in[n])

Reverse(seq) == [i \in 1..Len(seq) |-> seq[Len(seq) + 1 - i]]

\* the .jp2 files of a directory (the filters of lines 61-63 and 345)
Jp2Suffix(name) == Suffix(name) = Jp2

Jp2Files(dir) == {n \in dir : Jp2Suffix(n)}

Listing(n10, n20, n60) == [R10m |-> n10, R20m |-> n20, R60m |-> n60]

\* every directory listed by name
ByName(p) ==
    Listing(Ascending(Jp2Files(p.R10m)), Ascending(Jp2Files(p.R20m)),
            Ascending(Jp2Files(p.R60m)))

\* every directory listed by name, forwards or backwards
NameListings(p) ==
    {ByName(p),
     Listing(Reverse(ByName(p).R10m), Reverse(ByName(p).R20m),
             Reverse(ByName(p).R60m))}

\* every order of every directory
AllOrders(S) == {f \in [1..Cardinality(S) -> S] : Range(f) = S}

AllListings(p) ==
    {Listing(n10, n20, n60) :
        n10 \in AllOrders(Jp2Files(p.R10m)),
        n20 \in AllOrders(Jp2Files(p.R20m)),
        n60 \in AllOrders(Jp2Files(p.R60m))}

(***************************************************************************)
(* processors.processor_all and processors.processor_rgbn, step by step.   *)
(***************************************************************************)
\* the output folder of the run: GTIFF_PRODUCT in the product, or the
\* caller's folder
OutputFiles(d, output_path) ==
    IF output_path = "None" THEN d.gtiff.files ELSE d.out

WithOutputFile(d, output_path, file) ==
    IF output_path = "None"
    THEN [d EXCEPT !.gtiff.files = Put(@, file)]
    ELSE [d EXCEPT !.out = Put(@, file)]

\* lines 33-37 and 324-328: the call
Call(args, limit) ==
    /\ proc.pc \in {"idle", "done", "aborted"}
    /\ runs < limit
    /\ \E a \in args :
        proc' = [IdleFrame(disk) EXCEPT
                    !.pc = "check_path", !.func = a.func,
                    !.product_path = a.product_path,
                    !.output_path = a.output_path,
                    !.resample = a.resample, !.xml = a.xml,
                    !.pyramids = a.pyramids]
    /\ runs' = runs + 1
    /\ UNCHANGED <<call, product, disk>>

\* lines 37 and 328
CheckPath ==
    /\ proc.pc = "check_path"
    /\ LET r == check_path_validity(proc.product_path, disk)
       IN  /\ disk' = r.disk
           /\ proc' = IF r.error # "none" THEN Raise(proc, r.error)
                      ELSE Logged(Goto(proc, "output_folder"),
                                  IF r.extracted THEN {"extract"} ELSE {})
    /\ UNCHANGED <<call, product, runs>>

\* line 46 alone: mkdir(exist_ok=True) leaves a folder that is there as it is
KeptFolder(folder) == Folder(TRUE, folder.files)

\* lines 43-46 and 334-337: GTIFF_PRODUCT after rmtree, if it was there, and
\* mkdir
EmptiedFolder(folder) == Folder(TRUE, {})

\* lines 39-47 and 330-338
OutputFolder ==
    /\ proc.pc = "output_folder"
    /\ LET next == IF proc.func = "all" THEN "temp_folder" ELSE "list"
       IN  IF proc.output_path # "None"
           THEN /\ disk' = disk
                /\ proc' = Goto(proc, next)
           ELSE /\ disk' = [disk EXCEPT !.gtiff = EmptiedFolder(@)]
                /\ proc' = Logged(Goto(proc, next),
                                  (IF disk.gtiff.exists
                                   THEN {"rmtree GTIFF_PRODUCT"} ELSE {})
                                  \cup {"mkdir GTIFF_PRODUCT"})
    /\ UNCHANGED <<call, product, runs>>

\* lines 49-51
TempFolder ==
    /\ proc.pc = "temp_folder"
    /\ disk' = [disk EXCEPT !.temp.exists = TRUE]
    /\ proc' = Logged(Goto(proc, "list"),
                      IF disk.temp.exists THEN {} ELSE {"mkdir TEMP"})
    /\ UNCHANGED <<call, product, runs>>

\* lines 53-63 and 340-345 (processor_rgbn lists R10m only); listings are
\* the orders in which iterdir may list the directories of the product.  The
\* product holds one L2A granule, so line 54 finds it and the test of line 56
\* holds.
ListDirs(listings) ==
    /\ proc.pc = "list"
    /\ \E l \in listings :
        proc' = Logged([proc EXCEPT
                           !.pc = "read_10m",
                           !.band_names_10m = l.R10m,
                           !.band_names_20m = IF proc.func = "all" THEN l.R20m ELSE <<>>,
                           !.band_names_60m = IF proc.func = "all" THEN l.R60m ELSE <<>>],
                       IF l = ByName(product) THEN {} ELSE {"listed out of name order"})
    /\ UNCHANGED <<call, product, disk, runs>>

\* one of the loops of lines 74-88, 90-106, 108-121, 352-366: the codes, the
\* bands and the profile of the last band read
ReadTier(band_names, codes, res, rows, geo) ==
    LET sel == SelectSeq(band_names, LAMBDA n : Selected(n, codes, res))
    IN  [code_list  |-> [i \in 1..Len(sel) |-> CodeOf(sel[i])],
         stack_list |-> [i \in 1..Len(sel) |-> Band(product.pix[sel[i]], rows)],
         kwargs     |-> IF Len(sel) = 0 THEN UnboundKwargs
                        ELSE [bound |-> TRUE, transform |-> geo]]

ReadLog(r) == IF Len(r.code_list) = 0 THEN {} ELSE {"read band"}

\* lines 74-88 and 352-366
Read10m ==
    /\ proc.pc = "read_10m"
    /\ LET r == ReadTier(proc.band_names_10m, SelectCodes10m, R10, Rows10m,
                         product.geo.r10)
       IN  proc' = Logged([proc EXCEPT
                              !.pc = IF proc.func = "all" THEN "read_20m" ELSE "sort_10m",
                              !.band_names_10m = <<>>,
                              !.code_10m_list = r.code_list,
                              !.stack_10m_list = r.stack_list,
                              !.src_10m_kwargs = r.kwargs], ReadLog(r))
    /\ UNCHANGED <<call, product, disk, runs>>

\* lines 90-106
Read20m ==
    /\ proc.pc = "read_20m"
    /\ LET r == ReadTier(proc.band_names_20m, SelectCodes20m, R20, Rows20m,
                         product.geo.r20)
       IN  proc' = Logged([proc EXCEPT !.pc = "read_60m",
                                       !.band_names_20m = <<>>,
                                       !.code_20m_list = r.code_list,
                                       !.stack_20m_list = r.stack_list,
                                       !.src_20m_kwargs = r.kwargs], ReadLog(r))
    /\ UNCHANGED <<call, product, disk, runs>>

\* lines 108-121
Read60m ==
    /\ proc.pc = "read_60m"
    /\ LET r == ReadTier(proc.band_names_60m, SelectCodes60m, R60, Rows60m,
                         product.geo.r60)
       IN  proc' = Logged([proc EXCEPT !.pc = "sort_10m",
                                       !.band_names_60m = <<>>,
                                       !.code_60m_list = r.code_list,
                                       !.stack_60m_list = r.stack_list,
                                       !.src_60m_kwargs = r.kwargs], ReadLog(r))
    /\ UNCHANGED <<call, product, disk, runs>>

\* stack_sort(np.asarray(stack_list), code_list, sorted_list)
SortTier(stack_list, code_list, sorted_list) ==
    stack_sort_run(stack_sort_enter(np_asarray(stack_list), code_list, sorted_list))

\* lines 125-128 and 370-373
Sort10m ==
    /\ proc.pc = "sort_10m"
    /\ LET r == SortTier(proc.stack_10m_list, proc.code_10m_list, sorted_list_10m)
       IN  proc' = IF r.pc # "return" THEN Raise(proc, r.pc)
                   ELSE [proc EXCEPT
                            !.pc = IF proc.func = "all" THEN "sort_20m" ELSE "xml",
                            !.stack_10m_sorted = r.stack_sorted,
                            !.stack_10m_list = <<>>, !.code_10m_list = <<>>]
    /\ UNCHANGED <<call, product, disk, runs>>

\* lines 132-135
Sort20m ==
    /\ proc.pc = "sort_20m"
    /\ LET r == SortTier(proc.stack_20m_list, proc.code_20m_list, sorted_list_20m)
       IN  proc' = IF r.pc # "return" THEN Raise(proc, r.pc)
                   ELSE [proc EXCEPT !.pc = "sort_60m",
                                     !.stack_20m_sorted = r.stack_sorted,
                                     !.stack_20m_list = <<>>, !.code_20m_list = <<>>]
    /\ UNCHANGED <<call, product, disk, runs>>

\* lines 139-142
Sort60m ==
    /\ proc.pc = "sort_60m"
    /\ LET r == SortTier(proc.stack_60m_list, proc.code_60m_list, sorted_list_60m)
       IN  proc' = IF r.pc # "return" THEN Raise(proc, r.pc)
                   ELSE [proc EXCEPT !.pc = "write_temp",
                                     !.stack_60m_sorted = r.stack_sorted,
                                     !.stack_60m_list = <<>>, !.code_60m_list = <<>>]
    /\ UNCHANGED <<call, product, disk, runs>>

\* band counts of the rasters written (lines 151, 161, 171, 266, 379)
Count10m == 4
Count20m == 6
Count60m == 2
CountAll == 12
CountRgbn == 4

\* lines 197-198
scale_factor_20m == 2
scale_factor_60m == 6

TempName10m == <<"Temp_10m", ".tif">>
TempName20m == <<"Temp_20m", ".tif">>
TempName60m == <<"Temp_60m", ".tif">>

\* rasterio.open(path, "w", count=n, ...) creates the raster; dst.write(array)
\* writes all n bands and raises ValueError for an array of another band
\* count, leaving the raster without band data
Raster(name, array, count, transform) ==
    File(name, IF Len(array) = count THEN array ELSE <<>>, transform)

\* lines 146-193
WriteTemp ==
    /\ proc.pc = "write_temp"
    /\ LET r10 == Raster(TempName10m, proc.stack_10m_sorted, Count10m,
                         proc.src_10m_kwargs.transform)
           r20 == Raster(TempName20m, proc.stack_20m_sorted, Count20m,
                         proc.src_20m_kwargs.transform)
           r60 == Raster(TempName60m, proc.stack_60m_sorted, Count60m,
                         proc.src_60m_kwargs.transform)
           f1 == Put(disk.temp.files, r10)
           f2 == Put(f1, r20)
           f3 == Put(f2, r60)
           wrote == {"write temporary raster"}
       IN  IF ~(proc.src_10m_kwargs.bound /\ proc.src_20m_kwargs.bound
                    /\ proc.src_60m_kwargs.bound)
           THEN disk' = disk /\ proc' = Raise(proc, "NameError")
           ELSE IF Len(proc.stack_10m_sorted) # Count10m
           THEN /\ disk' = [disk EXCEPT !.temp.files = f1]
                /\ proc' = Logged(Raise(proc, "ValueError"), wrote)
           ELSE IF Len(proc.stack_20m_sorted) # Count20m
           THEN /\ disk' = [disk EXCEPT !.temp.files = f2]
                /\ proc' = Logged(Raise(proc, "ValueError"), wrote)
           ELSE IF Len(proc.stack_60m_sorted) # Count60m
           THEN /\ disk' = [disk EXCEPT !.temp.files = f3]
                /\ proc' = Logged(Raise(proc, "ValueError"), wrote)
           ELSE /\ disk' = [disk EXCEPT !.temp.files = f3]
                /\ proc' = Logged(Goto(proc, "resample_option"), wrote)
    /\ UNCHANGED <<call, product, runs>>

\* lines 200-207
KnownResample == {"nearest", "bilinear", "cubic"}

ResampleOption ==
    /\ proc.pc = "resample_option"
    /\ proc' = IF proc.resample \in KnownResample
               THEN Goto(proc, "resample")
               ELSE Raise(proc, "SystemExit")
    /\ UNCHANGED <<call, product, disk, runs>>

\* lines 210-217 and 225-232: the raster read at scale times its height and
\* width
Upsample(bands, scale) ==
    [i \in 1..Len(bands) |->
        [bands[i] EXCEPT !.rows = @ * scale, !.scale = @ * scale]]

\* lines 219-222 and 234-237: the transform scaled by width / (scale * width)
ScaledTransform(transform, scale) ==
    [transform EXCEPT !.pixel = @ \div scale]

\* lines 209-237
Resample ==
    /\ proc.pc = "resample"
    /\ LET res_src_20m == Named(disk.temp.files, TempName20m)
           res_src_60m == Named(disk.temp.files, TempName60m)
       IN  proc' = [proc EXCEPT
                      !.pc = "merge",
                      !.data_20m = Upsample(res_src_20m.bands, scale_factor_20m),
                      !.transform_20m =
                          ScaledTransform(res_src_20m.transform, scale_factor_20m),
                      !.data_60m = Upsample(res_src_60m.bands, scale_factor_60m),
                      !.transform_60m =
                          ScaledTransform(res_src_60m.transform, scale_factor_60m)]
    /\ UNCHANGED <<call, product, disk, runs>>

\* the condition of line 239
TransformsAgreeAlways(transform_20m, transform_60m) == TRUE

TransformsAgree(transform_20m, transform_60m) == transform_20m = transform_60m

Take(array, slot) == [array |-> array, slot |-> slot]

\* the tuple of lines 244-255, slices written [slot : slot + 1]
MergeLayoutSixtyLast ==
    <<Take("data_60m", 0),
      Take("stack_10m_sorted", 0), Take("stack_10m_sorted", 1),
      Take("stack_10m_sorted", 2),
      Take("data_20m", 0), Take("data_20m", 1), Take("data_20m", 2),
      Take("stack_10m_sorted", 3),
      Take("data_20m", 5), Take("data_20m", 3), Take("data_20m", 4),
      Take("data_60m", 1)>>

MergeLayout ==
    <<Take("data_60m", 0),
      Take("stack_10m_sorted", 0), Take("stack_10m_sorted", 1),
      Take("stack_10m_sorted", 2),
      Take("data_20m", 0), Take("data_20m", 1), Take("data_20m", 2),
      Take("stack_10m_sorted", 3),
      Take("data_20m", 5),
      Take("data_60m", 1),
      Take("data_20m", 3), Take("data_20m", 4)>>

RECURSIVE Concatenate(_)
Concatenate(pieces) ==
    IF pieces = <<>> THEN <<>>
    ELSE Head(pieces) \o Concatenate(Tail(pieces))

\* lines 242-258: np.concatenate along axis 0, which raises ValueError for
\* arrays that differ in rows or columns
Merged(f) ==
    LET arrays == [data_60m |-> f.data_60m, data_20m |-> f.data_20m,
                   stack_10m_sorted |-> f.stack_10m_sorted]
        rows == {b.rows : b \in Range(f.data_60m) \cup Range(f.data_20m)
                                  \cup Range(f.stack_10m_sorted)}
    IN  [error |-> IF Cardinality(rows) > 1 THEN "ValueError" ELSE "none",
         band  |-> Concatenate(
                      [i \in 1..Len(MergeLayout) |->
                          Slice(arrays[MergeLayout[i].array],
                                MergeLayout[i].slot, MergeLayout[i].slot + 1)])]

\* lines 239-260
Merge ==
    /\ proc.pc = "merge"
    /\ LET deleted == [proc EXCEPT !.stack_10m_sorted = <<>>,
                                   !.stack_20m_sorted = <<>>,
                                   !.stack_60m_sorted = <<>>,
                                   !.data_20m = <<>>, !.data_60m = <<>>]
           m == Merged(proc)
       IN  proc' = IF ~TransformsAgree(proc.transform_20m, proc.transform_60m)
                   THEN Goto(deleted, "xml")
                   ELSE IF m.error # "none" THEN Raise(proc, m.error)
                   ELSE [deleted EXCEPT !.pc = "xml",
                                        !.stack = [bound |-> TRUE, band |-> m.band]]
    /\ UNCHANGED <<call, product, disk, runs>>

\* resample.upper()
Upper(resample) ==
    CASE resample = "nearest" -> "NEAREST"
      [] resample = "bilinear" -> "BILINEAR"
      [] resample = "cubic" -> "CUBIC"
      [] OTHER -> "LANCZOS"

\* lines 273 and 386: the name of the output raster, without its suffix
OutputStem(f) ==
    IF f.func = "all" THEN <<Upper(f.resample), "STACK_ALL">> ELSE <<"STACK_RGBN">>

name_output(f) == OutputStem(f) \o <<".tif">>

\* utils.py line 128: out_name.with_suffix(".tif.aux.xml")
SidecarName(f) == OutputStem(f) \o <<".tif.aux.xml">>

\* the external overviews of the raster
OverviewName(f) == OutputStem(f) \o <<".tif.ovr">>

\* the array the run exports: stack in processor_all (bound only by line
\* 242), stack_10m_sorted in processor_rgbn
ExportStack(f) ==
    IF f.func = "all" THEN f.stack
    ELSE [bound |-> TRUE, band |-> f.stack_10m_sorted]

ExportCount(f) == IF f.func = "all" THEN CountAll ELSE CountRgbn

\* lines 275-276 and 388-389 (utils.create_pam_xml)
Xml ==
    /\ proc.pc = "xml"
    /\ IF ~proc.xml
       THEN disk' = disk /\ proc' = Goto(proc, "export")
       ELSE IF ~ExportStack(proc).bound
       THEN disk' = disk /\ proc' = Raise(proc, "NameError")
       ELSE /\ disk' = WithOutputFile(disk, proc.output_path,
                           File(SidecarName(proc), ExportStack(proc).band, NoGeo))
            /\ proc' = Wrote(Logged(Goto(proc, "export"), {"write statistics"}),
                             File(SidecarName(proc), ExportStack(proc).band, NoGeo))
    /\ UNCHANGED <<call, product, runs>>

\* lines 280-295 and 393-408
Export ==
    /\ proc.pc = "export"
    /\ LET st == ExportStack(proc)
           empty == File(name_output(proc), <<>>, proc.src_10m_kwargs.transform)
           raster == Raster(name_output(proc), st.band, ExportCount(proc),
                            proc.src_10m_kwargs.transform)
           ovr == File(OverviewName(proc), <<>>, NoGeo)
           created == WithOutputFile(disk, proc.output_path, empty)
           written == WithOutputFile(disk, proc.output_path, raster)
           overviews == WithOutputFile(written, proc.output_path, ovr)
           next == IF proc.func = "all" THEN "cleanup" ELSE "done"
       IN  IF ~st.bound
           THEN /\ disk' = created
                /\ proc' = Wrote(Logged(Raise(proc, "NameError"),
                                        {"create output raster"}), empty)
           ELSE IF Len(st.band) # ExportCount(proc)
           THEN /\ disk' = created
                /\ proc' = Wrote(Logged(Raise(proc, "ValueError"),
                                        {"create output raster"}), empty)
           ELSE IF proc.pyramids
           THEN /\ disk' = overviews
                /\ proc' = Wrote(Wrote(Logged(Goto(proc, next),
                                  {"create output raster", "write band data",
                                   "build overviews"}), raster), ovr)
           ELSE /\ disk' = written
                /\ proc' = Wrote(Logged(Goto(proc, next),
                                  {"create output raster", "write band data"}),
                                 raster)
    /\ UNCHANGED <<call, product, runs>>

\* line 297
Cleanup ==
    /\ proc.pc = "cleanup"
    /\ disk' = [disk EXCEPT !.temp = Folder(FALSE, {})]
    /\ proc' = Logged(Goto(proc, "done"), {"rmtree TEMP"})
    /\ UNCHANGED <<call, product, runs>>

\* the steps of a run after the call
Step(listings) ==
    \/ CheckPath
    \/ OutputFolder
    \/ TempFolder
    \/ ListDirs(listings)
    \/ Read10m
    \/ Read20m
    \/ Read60m
    \/ Sort10m
    \/ Sort20m
    \/ Sort60m
    \/ WriteTemp
    \/ ResampleOption
    \/ Resample
    \/ Merge
    \/ Xml
    \/ Export
    \/ Cleanup

\* no stand-alone stack_sort call is under way
IdleCall == stack_sort_enter(np_asarray(<<>>), <<>>, <<>>)

\* what an earlier export that failed has left behind: a raster without band
\* data; what an earlier run that was aborted has left in TEMP
LeftRaster == File(<<"STACK_RGBN", ".tif">>, <<>>, NoGeo)
LeftTemp == File(TempName10m, <<>>, NoGeo)

\* the disk before the first run of the model: the product folder and the
\* zipped product may each be there, and a product folder may hold what
\* earlier runs have left
FreshDisks ==
    {[zip |-> z, safe |-> s, gtiff |-> Folder(FALSE, {}),
      temp |-> Folder(FALSE, {}), out |-> {}] : z \in BOOLEAN, s \in BOOLEAN}

InitDisks ==
    FreshDisks
    \cup {[zip |-> z, safe |-> TRUE, gtiff |-> Folder(TRUE, {LeftRaster}),
           temp |-> Folder(TRUE, {LeftTemp}), out |-> {LeftRaster}] : z \in BOOLEAN}

(***************************************************************************)
(* Runs of both processors with every argument, one after the other, on    *)
(* the products of the model, the directories listed by name.              *)
(***************************************************************************)
Init ==
    /\ call = IdleCall
    /\ product \in Products
    /\ disk \in InitDisks
    /\ proc = IdleFrame(disk)
    /\ runs = 0

Next == Call(AllArgs, MaxRuns) \/ Step(NameListings(product))

Spec == Init /\ [][Next]_vars

(***************************************************************************)
(* One run of processor_all with its default arguments, the directories    *)
(* listed in every order.                                                  *)
(***************************************************************************)
OrderInit ==
    /\ call = IdleCall
    /\ product \in BareProducts
    /\ disk \in {d \in FreshDisks : d.safe /\ ~d.zip}
    /\ proc = IdleFrame(disk)
    /\ runs = 0

OrderNext == Call(DefaultArgs, 1) \/ Step(AllListings(product))

OrderSpec == OrderInit /\ [][OrderNext]_vars

(***************************************************************************)
(* Successful runs of both processors, one after the other, on the same    *)
(* .SAFE product: the standard product, arguments every run accepts.       *)
(***************************************************************************)
SeqArgs ==
    {Args("all", ".SAFE", o, r, x, y) :
        o \in {"None", "out"}, r \in {"nearest", "bilinear"},
        x \in BOOLEAN, y \in BOOLEAN}
    \cup
    {Args("rgbn", ".SAFE", o, "nearest", x, y) :
        o \in {"None", "out"}, x \in BOOLEAN, y \in BOOLEAN}

SeqInit ==
    /\ call = IdleCall
    /\ product = StandardProduct
    /\ disk \in {d \in FreshDisks : d.safe /\ ~d.zip}
    /\ proc = IdleFrame(disk)
    /\ runs = 0

SeqNext == Call(SeqArgs, MaxSeq) \/ Step({ByName(product)})

SeqSpec == SeqInit /\ [][SeqNext]_vars

(***************************************************************************)
(* Stand-alone calls of stack_sort, one loop pass per step.                *)
(***************************************************************************)
\* the codes of the band files processor_all selects in the 60m tier
SortCodes == {C01, C09, C10}

\* pixel contents of the band in slot i (0-based) of an input stack: all
\* bands differ, at the low and at the high end of uint16
Ramp(n) == [i \in 1..n |-> Band(i, 1)]
HighRamp(n) == [i \in 1..n |-> Band(65536 - i, 1)]

SortStacks(n) ==
    {[ndim |-> 3, band |-> Ramp(n)], [ndim |-> 3, band |-> HighRamp(n)]}
        \cup (IF n = 0 THEN {np_asarray(<<>>)} ELSE {})

SortInit ==
    /\ \E code_list \in SeqsUpTo(SortCodes, MaxLen),
          sorted_list \in SeqsUpTo(SortCodes, MaxLen) :
        \E stack_array \in SortStacks(Len(code_list)) :
            call = stack_sort_enter(stack_array, code_list, sorted_list)
    /\ product = StandardProduct
    /\ disk \in {d \in FreshDisks : d.safe /\ ~d.zip}
    /\ proc = IdleFrame(disk)
    /\ runs = 0

SortWhile ==
    /\ call.pc = "while"
    /\ call' = stack_sort_while(call)
    /\ UNCHANGED <<product, disk, proc, runs>>

SortFor ==
    /\ call.pc = "for"
    /\ call' = stack_sort_for(call)
    /\ UNCHANGED <<product, disk, proc, runs>>

SortNext == SortWhile \/ SortFor

SortSpec == SortInit /\ [][SortNext]_vars

\* the interpreter keeps running a call that has not ended
SortFairSpec == SortSpec /\ WF_vars(SortNext)

(***************************************************************************)
(* Claims about stack_sort.                                                *)
(***************************************************************************)
Distinct(seq) == \A i, j \in 1..Len(seq) : seq[i] = seq[j] => i = j

IsPermutation(a, b) ==
    /\ Len(a) = Len(b)
    /\ Distinct(a)
    /\ {a[i] : i \in 1..Len(a)} = {b[i] : i \in 1..Len(b)}

\* C1: for a code_list that is a permutation of sorted_list (distinct codes,
\* as long as the 3-D stack) the call does not fail, and the stack it returns
\* holds in every slot i the input band whose code is sorted_list[i].
C1_SortedCanonical ==
    (/\ call.stack_array.ndim = 3
     /\ IsPermutation(call.code_list, call.sorted_list))
    => /\ call.pc \notin {"IndexError", "ValueError"}
       /\ call.pc = "return" =>
            \A i \in 1..Len(call.sorted_list) :
                \E j \in 1..Len(call.code_list) :
                    /\ call.code_list[j] = call.sorted_list[i]
                    /\ call.stack_sorted[i] = call.stack_array.band[j]

\* a full-length stack listed in another order than the canonical one has
\* been sorted
C1_Witness ==
    /\ call.pc = "return"
    /\ call.stack_array.ndim = 3
    /\ Len(call.code_list) >= 3
    /\ IsPermutation(call.code_list, call.sorted_list)
    /\ call.code_list # call.sorted_list
    /\ call.stack_sorted # call.stack_array.band

\* C5 as stated: whenever code_list equals sorted_list the call returns its
\* input stack unchanged.
C5_SortedIsNoOp_Original ==
    (/\ call.stack_array.ndim = 3
     /\ call.code_list = call.sorted_list
     /\ call.pc \in SortTerminal)
    => /\ call.pc = "return"
       /\ call.stack_sorted = call.stack_array.band

\* C5 amended: whenever code_list equals sorted_list and no code occurs twice
\* in it, the call returns its input stack unchanged.
C5_SortedIsNoOp ==
    (/\ call.stack_array.ndim = 3
     /\ call.code_list = call.sorted_list
     /\ Distinct(call.code_list)
     /\ call.pc \in SortTerminal)
    => /\ call.pc = "return"
       /\ call.stack_sorted = call.stack_array.band

\* an already sorted full-length stack with bright pixels has been returned
C5_Witness ==
    /\ call.pc = "return"
    /\ call.code_list = call.sorted_list
    /\ Distinct(call.code_list)
    /\ Len(call.code_list) >= 3
    /\ call.stack_array.band[1].pix > 255
    /\ call.stack_sorted = call.stack_array.band

SortReturnedAllMatched ==
    /\ call.pc = "return"
    /\ call.count_sort = Len(call.code_list)

SortFailedPastEnd ==
    /\ call.pc = "IndexError"
    /\ \/ call.count >= Len(call.code_list)
       \/ call.count_sort >= Len(call.sorted_list)

\* C9: a call that enters the matching loop ends, whatever code_list and
\* sorted_list are: it returns with every slot matched, or it fails with the
\* scan index past the end of code_list or of sorted_list.
C9_ScanTerminates ==
    (call.pc = "while") ~> (SortReturnedAllMatched \/ SortFailedPastEnd)

\* a scan over a code_list with a duplicated code and a missing one has run
\* past the end
C9_Witness ==
    /\ SortFailedPastEnd
    /\ ~Distinct(call.code_list)
    /\ call.count_sort >= 1
    /\ \E i \in 1..Len(call.sorted_list) :
           \A j \in 1..Len(call.code_list) : call.code_list[j] # call.sorted_list[i]

(***************************************************************************)
(* Claims about the processors.                                            *)
(***************************************************************************)
\* the band of a band file as it stands in the merged product: read, stored
\* as uint16 and resampled by scale to the 10m grid
MergedBand(code, res, scale) ==
    [pix |-> U16(product.pix[BandFile(code, res)]), rows |-> Rows10m, scale |-> scale]

\* the tier a band of the merged product was taken from
TierOf(b) == CASE b.scale = 1 -> 10 [] b.scale = 2 -> 20 [] b.scale = 6 -> 60 [] OTHER -> 0

TierPixels(tier) ==
    {U16(product.pix[n]) :
        n \in IF tier = 10 THEN Bands10m ELSE IF tier = 20 THEN Bands20m ELSE Bands60m}

HasTiers(stack, tiers) ==
    /\ Len(stack) = Len(tiers)
    /\ \A i \in 1..Len(tiers) :
        /\ TierOf(stack[i]) = tiers[i]
        /\ stack[i].pix \in TierPixels(tiers[i])

MergedByAll == proc.func = "all" /\ proc.stack.bound

\* C2 as stated: the merged product takes its bands from the tiers
\* 60,10,10,10,20,20,20,10,20,20,20,60.
C2_MergeTiers_Original ==
    MergedByAll =>
        HasTiers(proc.stack.band, <<60, 10, 10, 10, 20, 20, 20, 10, 20, 20, 20, 60>>)

\* C2 amended: the merged product takes its bands from the tiers
\* 60,10,10,10,20,20,20,10,20,60,20,20: the second 60m band is the tenth
\* band, between the 20m band taken after band 08 and the last two 20m bands.
C2_MergeTiers ==
    MergedByAll =>
        HasTiers(proc.stack.band, <<60, 10, 10, 10, 20, 20, 20, 10, 20, 60, 20, 20>>)

C2_Witness ==
    /\ MergedByAll
    /\ Len(proc.stack.band) = CountAll
    /\ product.pix = SceneDistinct
    /\ proc.pc = "done"

\* the twelve bands in ascending order: 01 .. 08, 8A, 09, 11, 12
AscendingBands ==
    <<MergedBand(C01, R60, 6), MergedBand(C02, R10, 1), MergedBand(C03, R10, 1),
      MergedBand(C04, R10, 1), MergedBand(C05, R20, 2), MergedBand(C06, R20, 2),
      MergedBand(C07, R20, 2), MergedBand(C08, R10, 1), MergedBand(C8A, R20, 2),
      MergedBand(C09, R60, 6), MergedBand(C11, R20, 2), MergedBand(C12, R20, 2)>>

\* C3: whatever the order in which the band files are listed, the merged
\* product holds the twelve selected bands, each once (four of 10m, six of
\* 20m, two of 60m), in the order 01,02,03,04,05,06,07,08,8A,09,11,12.
C3_MergedAscending ==
    MergedByAll =>
        /\ proc.stack.band = AscendingBands
        /\ \A t \in {10, 20, 60} :
            Cardinality({i \in 1..Len(proc.stack.band) : TierOf(proc.stack.band[i]) = t})
                = (CASE t = 10 -> Count10m [] t = 20 -> Count20m [] OTHER -> Count60m)

\* a product of twelve different bands, listed out of name order, has been
\* merged
C3_Witness ==
    /\ MergedByAll
    /\ "listed out of name order" \in proc.log
    /\ product.pix = SceneDistinct
    /\ Cardinality({proc.stack.band[i].pix : i \in 1..Len(proc.stack.band)}) = CountAll

\* C4: the first band of the merged product is slot 0 of the sorted,
\* resampled 60m stack, which is band 01, whatever the pixels and whatever
\* the order in which the 60m files were listed.
C4_FirstBandIs01 ==
    MergedByAll =>
        /\ proc.stack.band[1] = MergedBand(C01, R60, scale_factor_60m)
        /\ proc.pc \in {"xml", "export", "cleanup"} =>
            proc.stack.band[1] =
                Upsample(Named(disk.temp.files, TempName60m).bands, scale_factor_60m)[1]

\* a product whose band 01 is the brightest 60m band, listed backwards, has
\* been merged
C4_Witness ==
    /\ MergedByAll
    /\ proc.pc = "xml"
    /\ "listed out of name order" \in proc.log
    /\ product.pix = SceneReversed
    /\ proc.stack.band[1].pix > proc.stack.band[10].pix

\* what a run finds on disk, apart from the product itself
Folders(d) == <<d.gtiff, d.temp, d.out>>

\* C6: a processor_all run with an unrecognized resample option creates and
\* deletes no folder, reads no band and writes no raster.
C6_BadResampleTouchesNothing ==
    (/\ proc.func = "all"
     /\ proc.resample \notin {"nearest", "bilinear", "cubic"})
    => /\ proc.log \subseteq {"extract"}
       /\ Folders(disk) = Folders(proc.entry_disk)

PathIsInvalid ==
    \/ ~PathExists(proc.product_path, proc.entry_disk)
    \/ proc.product_path \notin {".zip", ".SAFE"}

NothingRead ==
    /\ proc.code_10m_list = <<>> /\ proc.stack_10m_list = <<>>
    /\ proc.code_20m_list = <<>> /\ proc.stack_20m_list = <<>>
    /\ proc.code_60m_list = <<>> /\ proc.stack_60m_list = <<>>

\* C7: a run of either processor on a path that does not exist or that ends
\* neither in .zip nor in .SAFE raises SystemExit in its first step, with the
\* disk as the run found it and no band read.
C7_InvalidPathAborts ==
    (proc.pc # "idle" /\ PathIsInvalid)
    => /\ proc.pc \in {"check_path", "aborted"}
       /\ proc.pc = "aborted" => proc.error = "SystemExit"
       /\ disk = proc.entry_disk
       /\ proc.log = {}
       /\ NothingRead

\* processor_rgbn was stopped by a file of another suffix, beside a product
\* that holds output of earlier runs
C7_Witness ==
    /\ proc.pc = "aborted"
    /\ proc.func = "rgbn"
    /\ proc.product_path = ".tif"
    /\ disk.safe
    /\ disk.gtiff.files # {}
    /\ disk.temp.files # {}

\* C8: every code that band selection has put into a tier's code list, and
\* so hands to stack_sort, is in the canonical list of that tier.
C8_SelectedCodesCanonical ==
    /\ Range(proc.code_10m_list) \subseteq Range(sorted_list_10m)
    /\ Range(proc.code_20m_list) \subseteq Range(sorted_list_20m)
    /\ Range(proc.code_60m_list) \subseteq Range(sorted_list_60m)

TransformsDiffer ==
    /\ proc.func = "all"
    /\ proc.transform_20m # proc.transform_60m

\* C10: processor_all writes band data only when the resampled 20m and 60m
\* transforms are equal; when they differ no stack is merged, the run cannot
\* complete and ends in NameError, and it writes neither statistics nor band
\* data: an output raster it leaves holds no band.
C10_NoOutputOnMismatch ==
    /\ (proc.func = "all" /\ "write band data" \in proc.log)
        => /\ proc.transform_20m = proc.transform_60m
           /\ proc.transform_20m # NoGeo
    /\ TransformsDiffer
        => /\ ~proc.stack.bound
           /\ proc.pc \in {"merge", "xml", "export", "aborted"}
           /\ proc.pc = "aborted" => proc.error = "NameError"
           /\ proc.log \cap {"write statistics", "write band data", "build overviews"} = {}
           /\ \A e \in OutputFiles(disk, proc.output_path) :
                \/ e \in OutputFiles(proc.entry_disk, proc.output_path)
                \/ e.name = name_output(proc) /\ e.bands = <<>>

\* a run without statistics has got as far as creating the output raster
C10_Witness ==
    /\ TransformsDiffer
    /\ proc.pc = "aborted"
    /\ ~proc.xml
    /\ \E e \in OutputFiles(disk, proc.output_path) :
        e.name = name_output(proc) /\ e.bands = <<>>

MadeOutputFolder == "mkdir GTIFF_PRODUCT" \in proc.log

\* C11: a run with output_path omitted empties GTIFF_PRODUCT before it
\* writes, so from then on, and when the run has completed, the folder holds
\* exactly the files this run has written, whatever earlier runs had put
\* there; a run with output_path given neither deletes nor creates
\* GTIFF_PRODUCT and leaves it as the run found it.
C11_GtiffHoldsLastRun ==
    /\ (proc.pc = "done" /\ proc.output_path = "None") => MadeOutputFolder
    /\ MadeOutputFolder
        => /\ proc.output_path = "None"
           /\ disk.gtiff.exists
           /\ disk.gtiff.files = proc.written
    /\ (proc.pc # "idle" /\ proc.output_path # "None")
        => /\ proc.log \cap {"rmtree GTIFF_PRODUCT", "mkdir GTIFF_PRODUCT"} = {}
           /\ disk.gtiff = proc.entry_disk.gtiff

\* a third run has completed in a GTIFF_PRODUCT that held the raster, with
\* its band data, of a completed earlier run, and that raster is gone; another
\* of the earlier runs has written its raster into the caller's folder
C11_Witness ==
    /\ runs = 3
    /\ proc.pc = "done"
    /\ proc.output_path = "None"
    /\ "rmtree GTIFF_PRODUCT" \in proc.log
    /\ proc.written # {}
    /\ \E e \in proc.entry_disk.gtiff.files :
        /\ e.bands # <<>>
        /\ \A g \in disk.gtiff.files : g.name # e.name
    /\ \E e \in disk.out : e.bands # <<>>

====
